---- MODULE Spec2Model ----
(***************************************************************************)
(* Dependency-graph queries of bv-graph-wasm: the graph store, the         *)
(* deterministic topological sorter (Kahn's algorithm over a min-heap),    *)
(* the forward/backward reachability engine and the dependency analyzer    *)
(* (blockers, dependents, open blockers, actionable frontier).             *)
(*                                                                         *)
(* Node indices are the program's zero-based usize indices; a Vec is a     *)
(* sequence, so element i of a Vec v is v[i + 1].  Node labels are opaque  *)
(* to every algorithm and are not part of the state.                       *)
(***************************************************************************)
EXTENDS Bags, FiniteSets, Integers, Sequences, TLC

\* Bounds of the model.
MaxNodes == 3
MaxEdges == 3
MaxClosedLen == 3

VARIABLES graph, reversed, edge_count, pc, call, in_degree, heap, order,
          heap_pushes, underflow, visited, queue, result, enqueued, closes,
          ret

vars == <<graph, reversed, edge_count, pc, call, in_degree, heap, order,
          heap_pushes, underflow, visited, queue, result, enqueued, closes,
          ret>>

store == <<graph, reversed, edge_count>>

topo_locals == <<in_degree, heap, order, heap_pushes, underflow>>
bfs_locals == <<visited, queue, result, enqueued>>

----------------------------------------------------------------------------
\* Generic helpers over Vec-like sequences.

Range(s) == {s[k] : k \in 1..Len(s)}

Min(S) == CHOOSE x \in S : \A y \in S : x <= y

Max(S) == CHOOSE x \in S : \A y \in S : x >= y

\* iter().filter(keep).collect(): the elements of s in keep, order preserved.
RECURSIVE FilterSeq(_, _)
FilterSeq(s, keep) ==
    IF s = <<>> THEN <<>>
    ELSE IF Head(s) \in keep THEN <<Head(s)>> \o FilterSeq(Tail(s), keep)
         ELSE FilterSeq(Tail(s), keep)

\* (lo..hi-1) as an ascending sequence, the order a Rust range iterates in.
RangeSeq(n) == [k \in 1..n |-> k - 1]

----------------------------------------------------------------------------
\* Graph store (DiGraph): parallel successor and predecessor lists.

DiGraph_new == [successors |-> <<>>, predecessors |-> <<>>]

len(g) == Len(g.successors)

Nodes(g) == 0..(len(g) - 1)

add_node(g) ==
    [successors |-> Append(g.successors, <<>>),
     predecessors |-> Append(g.predecessors, <<>>)]

add_edge(g, from, to) ==
    LET s == [g.successors EXCEPT ![from + 1] = Append(@, to)]
    IN  [successors |-> s,
         predecessors |-> [g.predecessors EXCEPT ![to + 1] = Append(@, from)]]

successors_slice(g, node) ==
    IF node < len(g) THEN g.successors[node + 1] ELSE <<>>

predecessors_slice(g, node) ==
    IF node < len(g) THEN g.predecessors[node + 1] ELSE <<>>

graph_in_degree(g, node) == Len(predecessors_slice(g, node))

----------------------------------------------------------------------------
\* Values a query returns.  ret holds the last one, tagged by its Rust type:
\* Vec<usize>, bool, usize; Option<Vec<usize>> and TopoSortResult are records
\* already.

NoReturn == [unit |-> TRUE]

VecOf(s) == [vec |-> s]

BoolOf(b) == [bool |-> b]

UsizeOf(n) == [usize |-> n]

----------------------------------------------------------------------------
\* Topological sorter.

None == [some |-> FALSE, val |-> <<>>]

Some(v) == [some |-> TRUE, val |-> v]

\* (0..n).map(|i| graph.in_degree(i)).collect()
InitInDegreeDistinct(g) ==
    [k \in 1..len(g) |-> Cardinality(Range(predecessors_slice(g, k - 1)))]

InitInDegree(g) == [k \in 1..len(g) |-> graph_in_degree(g, k - 1)]

\* (0..n).filter(|&i| in_degree[i] == 0).map(Reverse).collect()
InitHeap(deg) == SetToBag({i \in 0..(Len(deg) - 1) : deg[i + 1] = 0})

\* BinaryHeap<Reverse<usize>>::pop: the smallest index in the heap.
HeapPopMax(h) == Max(BagToSet(h))

HeapPop(h) == Min(BagToSet(h))

\* in_degree[v] == 0 after the decrement: v becomes ready.
ReadyAtOne(deg, v) == deg[v + 1] <= 1

Ready(deg, v) == deg[v + 1] = 0

\* The body of `for &v in graph.successors_slice(u)`, folded over the slice.
\* st carries the loop's locals and the two observation counters.  A usize
\* that wraps below zero is kept as its negative representative (-1 stands
\* for usize::MAX); the code only ever compares in_degree[v] with 0, which is
\* exact on representatives.  A build with overflow checks panics instead;
\* underflow records that either outcome was reached.
RECURSIVE Relax(_, _)
Relax(st, succs) ==
    IF succs = <<>> THEN st
    ELSE LET v == Head(succs)
             deg == [st.in_degree EXCEPT ![v + 1] = @ - 1]
             push == Ready(deg, v)
         IN  Relax([in_degree |-> deg,
                    heap |-> IF push THEN st.heap (+) SetToBag({v}) ELSE st.heap,
                    heap_pushes |-> IF push
                                    THEN [st.heap_pushes EXCEPT ![v + 1] = @ + 1]
                                    ELSE st.heap_pushes,
                    underflow |-> st.underflow \/ st.in_degree[v + 1] = 0],
                   Tail(succs))

\* if order.len() == n { Some(order) } else { None }
TopoResultPartial(ord, n) == Some(ord)

TopoResult(ord, n) == IF Len(ord) = n THEN Some(ord) ELSE None

is_dag(opt) == opt.some

topological_sort_result(opt) ==
    IF opt.some THEN [order |-> opt.val, is_dag |-> TRUE]
    ELSE [order |-> <<>>, is_dag |-> FALSE]

\* What the entry point f hands back for topological_sort's outcome opt.
TopoWrap(f, opt) ==
    CASE f = "topological_sort" -> opt
      [] f = "is_dag" -> BoolOf(is_dag(opt))
      [] f = "topological_sort_result" -> topological_sort_result(opt)

TopoFns == {"topological_sort", "is_dag", "topological_sort_result"}

----------------------------------------------------------------------------
\* Reachability engine.

ReachFns == {"reachable_from", "reachable_to"}

\* The slice the traversal f follows out of v.
NeighboursForward(g, f, v) == successors_slice(g, v)

Neighbours(g, f, v) ==
    IF f = "reachable_from" THEN successors_slice(g, v)
    ELSE predecessors_slice(g, v)

\* vec![false; n], the empty queue and result, then
\* queue.push_back(source); visited[source] = true.
BfsStartUnmarked(g, source) ==
    [visited |-> [k \in 1..len(g) |-> FALSE],
     queue |-> <<source>>,
     result |-> <<>>,
     enqueued |-> [k \in 1..len(g) |-> IF k = source + 1 THEN 1 ELSE 0]]

BfsStart(g, source) ==
    [visited |-> [k \in 1..len(g) |-> k = source + 1],
     queue |-> <<source>>,
     result |-> <<>>,
     enqueued |-> [k \in 1..len(g) |-> IF k = source + 1 THEN 1 ELSE 0]]

\* if !visited[w] { visited[w] = true; queue.push_back(w); }
DiscoverOneNoPush(st, w) ==
    IF ~st.visited[w + 1]
    THEN [st EXCEPT !.visited[w + 1] = TRUE]
    ELSE st

DiscoverOne(st, w) ==
    IF ~st.visited[w + 1]
    THEN [st EXCEPT !.visited[w + 1] = TRUE,
                    !.queue = Append(@, w),
                    !.enqueued[w + 1] = @ + 1]
    ELSE st

\* The inner `for &w in slice` loop.
RECURSIVE Discover(_, _)
Discover(st, slice) ==
    IF slice = <<>> THEN st
    ELSE Discover(DiscoverOne(st, Head(slice)), Tail(slice))

\* One iteration of `while let Some(v) = queue.pop_front()`.
BfsStep(g, f, st) ==
    LET v == Head(st.queue)
    IN  Discover([st EXCEPT !.queue = Tail(@), !.result = Append(@, v)],
                 Neighbours(g, f, v))

\* The whole loop, run to the empty queue.
RECURSIVE BfsRun(_, _, _)
BfsRun(g, f, st) ==
    IF st.queue = <<>> THEN st.result
    ELSE BfsRun(g, f, BfsStep(g, f, st))

reachable_from(g, source) ==
    IF source >= len(g) THEN <<>>
    ELSE BfsRun(g, "reachable_from", BfsStart(g, source))

reachable_to(g, target) ==
    IF target >= len(g) THEN <<>>
    ELSE BfsRun(g, "reachable_to", BfsStart(g, target))

----------------------------------------------------------------------------
\* Dependency analyzer.

\* closed_set.get(p).copied().unwrap_or(false)
IsClosedOrAbsent(closed_set, p) ==
    IF p < Len(closed_set) THEN closed_set[p + 1] ELSE TRUE

IsClosed(closed_set, p) ==
    IF p < Len(closed_set) THEN closed_set[p + 1] ELSE FALSE

blockers(g, node) == predecessors_slice(g, node)

dependents(g, node) == successors_slice(g, node)

is_actionable_any(g, node, closed_set) ==
    \E k \in 1..Len(predecessors_slice(g, node)) :
        IsClosed(closed_set, predecessors_slice(g, node)[k])

is_actionable(g, node, closed_set) ==
    \A k \in 1..Len(predecessors_slice(g, node)) :
        IsClosed(closed_set, predecessors_slice(g, node)[k])

actionable_nodes(g, closed_set) ==
    FilterSeq(FilterSeq(RangeSeq(len(g)),
                        {i \in Nodes(g) : ~IsClosed(closed_set, i)}),
              {i \in Nodes(g) : is_actionable(g, i, closed_set)})

open_blockers(g, node, closed_set) ==
    FilterSeq(predecessors_slice(g, node),
              {p \in Range(predecessors_slice(g, node)) :
                  ~IsClosed(closed_set, p)})

open_blocker_count_closed(g, node, closed_set) ==
    Cardinality({k \in 1..Len(predecessors_slice(g, node)) :
                    IsClosed(closed_set, predecessors_slice(g, node)[k])})

open_blocker_count(g, node, closed_set) ==
    Cardinality({k \in 1..Len(predecessors_slice(g, node)) :
                    ~IsClosed(closed_set, predecessors_slice(g, node)[k])})

\* The caller's completion state after it marks node i closed: the vector is
\* grown with "not closed" entries when i lies beyond its end.
MarkClosed(closed_set, i) ==
    [k \in 1..(IF i < Len(closed_set) THEN Len(closed_set) ELSE i + 1) |->
        IF k = i + 1 THEN TRUE
        ELSE IF k <= Len(closed_set) THEN closed_set[k] ELSE FALSE]

\* Inputs of the queries.
ClosedSets == UNION {[1..k -> BOOLEAN] : k \in 0..MaxClosedLen}

QueryNodes == 0..MaxNodes

----------------------------------------------------------------------------
\* State machine.
\*
\* graph is the store under construction and reversed its mirror image, into
\* which every edge (u, v) is inserted as (v, u) at the same moment.  pc is
\* the position of the single thread of control: "idle" (no query running),
\* "topo_loop" and "bfs_loop" (inside the two while loops), "frontier" (the
\* caller holds an actionable frontier and closes its nodes one by one) and
\* "done" (a query has returned ret).  call records the running query and
\* its arguments.  heap_pushes, underflow, enqueued and closes only observe.

NoCall == [fn |-> "none", node |-> 0, closed_set |-> <<>>]

ClearTopo ==
    /\ in_degree' = <<>>
    /\ heap' = EmptyBag
    /\ order' = <<>>
    /\ heap_pushes' = <<>>
    /\ underflow' = FALSE

ClearBfs ==
    /\ visited' = <<>>
    /\ queue' = <<>>
    /\ result' = <<>>
    /\ enqueued' = <<>>

Init ==
    /\ graph = DiGraph_new
    /\ reversed = DiGraph_new
    /\ edge_count = 0
    /\ pc = "idle"
    /\ call = NoCall
    /\ in_degree = <<>>
    /\ heap = EmptyBag
    /\ order = <<>>
    /\ heap_pushes = <<>>
    /\ underflow = FALSE
    /\ visited = <<>>
    /\ queue = <<>>
    /\ result = <<>>
    /\ enqueued = <<>>
    /\ closes = 0
    /\ ret = NoReturn

\* No query holds a borrow of the graph: the single writer may append.
Quiescent == pc \in {"idle", "done"}

AddNode ==
    /\ Quiescent
    /\ len(graph) < MaxNodes
    /\ graph' = add_node(graph)
    /\ reversed' = add_node(reversed)
    /\ pc' = "idle"
    /\ call' = NoCall
    /\ ret' = NoReturn
    /\ ClearTopo
    /\ ClearBfs
    /\ UNCHANGED <<edge_count, closes>>

AddEdge(u, v) ==
    /\ Quiescent
    /\ edge_count < MaxEdges
    /\ u \in Nodes(graph)
    /\ v \in Nodes(graph)
    /\ graph' = add_edge(graph, u, v)
    /\ reversed' = add_edge(reversed, v, u)
    /\ edge_count' = edge_count + 1
    /\ pc' = "idle"
    /\ call' = NoCall
    /\ ret' = NoReturn
    /\ ClearTopo
    /\ ClearBfs
    /\ UNCHANGED closes

\* topological_sort up to the loop: early return on the empty graph,
\* otherwise in-degrees, the initial heap and the empty order.
TopoCall(f) ==
    /\ pc = "idle"
    /\ f \in TopoFns
    /\ call' = [fn |-> f, node |-> 0, closed_set |-> <<>>]
    /\ IF len(graph) = 0
       THEN /\ pc' = "done"
            /\ ret' = TopoWrap(f, Some(<<>>))
            /\ ClearTopo
       ELSE /\ pc' = "topo_loop"
            /\ ret' = NoReturn
            /\ in_degree' = InitInDegree(graph)
            /\ heap' = InitHeap(InitInDegree(graph))
            /\ order' = <<>>
            /\ heap_pushes' = [k \in 1..len(graph) |->
                                 IF InitInDegree(graph)[k] = 0 THEN 1 ELSE 0]
            /\ underflow' = FALSE
    /\ UNCHANGED <<store, bfs_locals, closes>>

\* One iteration of `while let Some(Reverse(u)) = heap.pop()`.
TopoIterate ==
    /\ pc = "topo_loop"
    /\ heap # EmptyBag
    /\ LET u == HeapPop(heap)
           st == Relax([in_degree |-> in_degree,
                        heap |-> heap (-) SetToBag({u}),
                        heap_pushes |-> heap_pushes,
                        underflow |-> underflow],
                       successors_slice(graph, u))
       IN  /\ order' = Append(order, u)
           /\ in_degree' = st.in_degree
           /\ heap' = st.heap
           /\ heap_pushes' = st.heap_pushes
           /\ underflow' = st.underflow
    /\ UNCHANGED <<store, pc, call, bfs_locals, closes, ret>>

\* The heap is empty: the length test and the entry point's return.
TopoExit ==
    /\ pc = "topo_loop"
    /\ heap = EmptyBag
    /\ pc' = "done"
    /\ ret' = TopoWrap(call.fn, TopoResult(order, len(graph)))
    /\ UNCHANGED <<store, call, topo_locals, bfs_locals, closes>>

\* reachable_from / reachable_to up to the loop: the range test, then the
\* visited vector, the queue seeded with the start node and the empty result.
ReachCall(f, node) ==
    /\ pc = "idle"
    /\ f \in ReachFns
    /\ node \in QueryNodes
    /\ call' = [fn |-> f, node |-> node, closed_set |-> <<>>]
    /\ IF node >= len(graph)
       THEN /\ pc' = "done"
            /\ ret' = VecOf(<<>>)
            /\ ClearBfs
       ELSE /\ pc' = "bfs_loop"
            /\ ret' = NoReturn
            /\ visited' = BfsStart(graph, node).visited
            /\ queue' = BfsStart(graph, node).queue
            /\ result' = BfsStart(graph, node).result
            /\ enqueued' = BfsStart(graph, node).enqueued
    /\ UNCHANGED <<store, topo_locals, closes>>

\* One iteration of `while let Some(v) = queue.pop_front()`.
ReachIterate ==
    /\ pc = "bfs_loop"
    /\ queue # <<>>
    /\ LET st == BfsStep(graph, call.fn,
                         [visited |-> visited, queue |-> queue,
                          result |-> result, enqueued |-> enqueued])
       IN  /\ visited' = st.visited
           /\ queue' = st.queue
           /\ result' = st.result
           /\ enqueued' = st.enqueued
    /\ UNCHANGED <<store, pc, call, topo_locals, closes, ret>>

\* The queue is empty: the traversal returns result.
ReachExit ==
    /\ pc = "bfs_loop"
    /\ queue = <<>>
    /\ pc' = "done"
    /\ ret' = VecOf(result)
    /\ UNCHANGED <<store, call, topo_locals, bfs_locals, closes>>

BlockersCall(node) ==
    /\ pc = "idle"
    /\ node \in QueryNodes
    /\ call' = [fn |-> "blockers", node |-> node, closed_set |-> <<>>]
    /\ ret' = VecOf(blockers(graph, node))
    /\ pc' = "done"
    /\ UNCHANGED <<store, topo_locals, bfs_locals, closes>>

DependentsCall(node) ==
    /\ pc = "idle"
    /\ node \in QueryNodes
    /\ call' = [fn |-> "dependents", node |-> node, closed_set |-> <<>>]
    /\ ret' = VecOf(dependents(graph, node))
    /\ pc' = "done"
    /\ UNCHANGED <<store, topo_locals, bfs_locals, closes>>

IsActionableCall(node, closed_set) ==
    /\ pc = "idle"
    /\ node \in QueryNodes
    /\ closed_set \in ClosedSets
    /\ call' = [fn |-> "is_actionable", node |-> node,
                closed_set |-> closed_set]
    /\ ret' = BoolOf(is_actionable(graph, node, closed_set))
    /\ pc' = "done"
    /\ UNCHANGED <<store, topo_locals, bfs_locals, closes>>

OpenBlockersCall(node, closed_set) ==
    /\ pc = "idle"
    /\ node \in QueryNodes
    /\ closed_set \in ClosedSets
    /\ call' = [fn |-> "open_blockers", node |-> node,
                closed_set |-> closed_set]
    /\ ret' = VecOf(open_blockers(graph, node, closed_set))
    /\ pc' = "done"
    /\ UNCHANGED <<store, topo_locals, bfs_locals, closes>>

OpenBlockerCountCall(node, closed_set) ==
    /\ pc = "idle"
    /\ node \in QueryNodes
    /\ closed_set \in ClosedSets
    /\ call' = [fn |-> "open_blocker_count", node |-> node,
                closed_set |-> closed_set]
    /\ ret' = UsizeOf(open_blocker_count(graph, node, closed_set))
    /\ pc' = "done"
    /\ UNCHANGED <<store, topo_locals, bfs_locals, closes>>

\* The caller computes the actionable frontier for its completion state.
ActionableNodesCall(closed_set) ==
    /\ pc = "idle"
    /\ closed_set \in ClosedSets
    /\ call' = [fn |-> "actionable_nodes", node |-> 0,
                closed_set |-> closed_set]
    /\ ret' = VecOf(actionable_nodes(graph, closed_set))
    /\ pc' = "frontier"
    /\ closes' = 0
    /\ UNCHANGED <<store, topo_locals, bfs_locals>>

\* The caller marks one node of the frontier closed and recomputes it.
CloseActionable(i) ==
    /\ pc = "frontier"
    /\ i \in Range(ret.vec)
    /\ call' = [call EXCEPT !.closed_set = MarkClosed(@, i)]
    /\ ret' = VecOf(actionable_nodes(graph, MarkClosed(call.closed_set, i)))
    /\ closes' = closes + 1
    /\ UNCHANGED <<store, pc, topo_locals, bfs_locals>>

Next ==
    \/ AddNode
    \/ \E u, v \in 0..(MaxNodes - 1) : AddEdge(u, v)
    \/ \E f \in TopoFns : TopoCall(f)
    \/ TopoIterate
    \/ TopoExit
    \/ \E f \in ReachFns, node \in QueryNodes : ReachCall(f, node)
    \/ ReachIterate
    \/ ReachExit
    \/ \E node \in QueryNodes : BlockersCall(node)
    \/ \E node \in QueryNodes : DependentsCall(node)
    \/ \E node \in QueryNodes, c \in ClosedSets : IsActionableCall(node, c)
    \/ \E node \in QueryNodes, c \in ClosedSets : OpenBlockersCall(node, c)
    \/ \E node \in QueryNodes, c \in ClosedSets : OpenBlockerCountCall(node, c)
    \/ \E c \in ClosedSets : ActionableNodesCall(c)
    \/ \E i \in 0..(MaxNodes - 1) : CloseActionable(i)

Spec == Init /\ [][Next]_vars

\* Every query is a synchronous loop that runs to completion, and the caller
\* of the frontier keeps closing actionable nodes while there are any.
FairSpec ==
    /\ Spec
    /\ WF_vars(TopoIterate \/ TopoExit)
    /\ WF_vars(ReachIterate \/ ReachExit)
    /\ WF_vars(\E i \in 0..(MaxNodes - 1) : CloseActionable(i))

----------------------------------------------------------------------------
\* Graph-theoretic vocabulary of the properties, defined on the edge relation
\* rather than on any traversal.

\* u -> v is an edge (in any multiplicity).
HasEdge(g, u, v) ==
    \E k \in 1..Len(g.successors[u + 1]) : g.successors[u + 1][k] = v

PredSet(g, v) == {u \in Nodes(g) : HasEdge(g, u, v)}

\* Nodes at the end of a directed path of length >= 0 starting in S.
RECURSIVE ForwardClosure(_, _)
ForwardClosure(g, S) ==
    LET T == S \cup {v \in Nodes(g) : \E u \in S : HasEdge(g, u, v)}
    IN  IF T = S THEN S ELSE ForwardClosure(g, T)

\* Some node lies on a directed cycle (a self-loop is one).
HasCycle(g) ==
    \E u \in Nodes(g) :
        u \in ForwardClosure(g, {v \in Nodes(g) : HasEdge(g, u, v)})

HasDuplicateEdge(g) ==
    \E u \in Nodes(g) :
        Cardinality(Range(g.successors[u + 1])) < Len(g.successors[u + 1])

Position(s, x) == CHOOSE k \in 1..Len(s) : s[k] = x

NoRepeat(s) == \A j, k \in 1..Len(s) : j # k => s[j] # s[k]

StrictlyAscending(s) == \A j, k \in 1..Len(s) : j < k => s[j] < s[k]

\* A completion state marks index i closed: absent entries are not closed.
ClosedAt(closed_set, i) ==
    /\ i + 1 \in DOMAIN closed_set
    /\ closed_set[i + 1] = TRUE

Returned(f) == pc = "done" /\ call.fn = f

----------------------------------------------------------------------------
\* C1: on every acyclic graph topological_sort returns Some(order), order
\* holds every node index exactly once, and every edge (u, v) has u at a
\* strictly smaller position than v.
C1_TopoOrderOnDag ==
    (Returned("topological_sort") /\ ~HasCycle(graph)) =>
        /\ ret.some
        /\ Len(ret.val) = len(graph)
        /\ Range(ret.val) = Nodes(graph)
        /\ \A u, v \in Nodes(graph) :
              HasEdge(graph, u, v) =>
                  Position(ret.val, u) < Position(ret.val, v)

\* An acyclic three-node graph with a duplicated edge and an edge against
\* index order has been sorted.
C1_Witness ==
    /\ Returned("topological_sort")
    /\ ~HasCycle(graph)
    /\ len(graph) = 3
    /\ HasDuplicateEdge(graph)
    /\ \E u, v \in Nodes(graph) : u > v /\ HasEdge(graph, u, v)
    /\ ret.some

\* C2: each entry point reports failure exactly when the graph has a directed
\* cycle: topological_sort returns None, is_dag returns false, and
\* topological_sort_result returns is_dag = false with an empty order.
C2_NoneIffCycle ==
    /\ Returned("topological_sort") => ((ret = None) <=> HasCycle(graph))
    /\ Returned("topological_sort") => (ret.some <=> ~HasCycle(graph))
    /\ Returned("is_dag") => ((ret.bool = FALSE) <=> HasCycle(graph))
    /\ Returned("topological_sort_result") =>
          /\ (ret.is_dag = FALSE) <=> HasCycle(graph)
          /\ HasCycle(graph) => ret.order = <<>>

\* A graph whose only edge is a self-loop was rejected although the loop had
\* already ordered another node.
C2_Witness ==
    /\ Returned("topological_sort_result")
    /\ edge_count = 1
    /\ \E u \in Nodes(graph) : HasEdge(graph, u, u)
    /\ order # <<>>
    /\ ret.is_dag = FALSE
    /\ ret.order = <<>>

C4_ActionableFrontier ==
    (pc = "frontier") =>
        /\ StrictlyAscending(ret.vec)
        /\ Range(ret.vec) =
              {i \in Nodes(graph) :
                  /\ ~ClosedAt(call.closed_set, i)
                  /\ \A p \in PredSet(graph, i) : ClosedAt(call.closed_set, p)}
        /\ \A i \in Nodes(graph) :
              (PredSet(graph, i) = {} /\ ~ClosedAt(call.closed_set, i)) =>
                  i \in Range(ret.vec)

\* A closed set shorter than the node count: a node past its end is returned
\* and another one is held back by an open predecessor.
C4_Witness ==
    /\ pc = "frontier"
    /\ closes = 0
    /\ len(graph) = 3
    /\ Len(call.closed_set) = 1
    /\ \E i \in Range(ret.vec) : i >= Len(call.closed_set) /\ PredSet(graph, i) # {}
    /\ \E i \in Nodes(graph) :
          /\ ~ClosedAt(call.closed_set, i)
          /\ i \notin Range(ret.vec)

\* C5: for a valid source, reachable_from returns exactly the nodes at the
\* end of a directed path of length >= 0 from source, source first.
C5_ReachableFromIsClosure ==
    (Returned("reachable_from") /\ call.node < len(graph)) =>
        /\ Range(ret.vec) = ForwardClosure(graph, {call.node})
        /\ ret.vec # <<>>
        /\ ret.vec[1] = call.node

\* A traversal of a cyclic graph returned more than its source and left a
\* node out.
C5_Witness ==
    /\ Returned("reachable_from")
    /\ call.node < len(graph)
    /\ HasCycle(graph)
    /\ Len(ret.vec) = 2
    /\ len(graph) = 3

\* C6: reachable_to on the graph returns the same sequence as reachable_from
\* on the mirror image built by inserting every edge (u, v) as (v, u) in the
\* same order, for every target, in range or not.
C6_ReachableToIsReversedFrom ==
    Returned("reachable_to") =>
        /\ ret.vec = reachable_from(reversed, call.node)
        /\ Range(ret.vec) = Range(reachable_from(reversed, call.node))

\* A backward traversal that reached all three nodes of a graph which is not
\* its own mirror image, out of index order.
C6_Witness ==
    /\ Returned("reachable_to")
    /\ len(graph) = 3
    /\ Len(ret.vec) = 3
    /\ graph.successors # reversed.successors
    /\ ~StrictlyAscending(Tail(ret.vec))

\* C7: a query given an out-of-range node index returns the empty sequence
\* (reachable_from, reachable_to, blockers, dependents, open_blockers) or
\* false (is_actionable).
C7_OutOfRangeEmptyOrFalse ==
    (pc = "done" /\ call.node >= len(graph)) =>
        /\ call.fn \in {"reachable_from", "reachable_to", "blockers",
                        "dependents", "open_blockers"} => ret.vec = <<>>
        /\ call.fn = "is_actionable" => ret.bool = FALSE

\* C8: open_blocker_count does not grow when the closed set grows: for every
\* closed set that closes at least the indices this call's closed set closes,
\* whatever the two lengths, the count is at most the count returned here.
C8_OpenBlockerCountMonotone ==
    Returned("open_blocker_count") =>
        \A bigger \in ClosedSets :
            (\A i \in 0..(MaxClosedLen - 1) :
                ClosedAt(call.closed_set, i) => ClosedAt(bigger, i))
            => open_blocker_count(graph, call.node, bigger) <= ret.usize

\* A node with two open blockers (one of them past the end of the closed set)
\* for which a shorter closed set closing more indices leaves fewer.
C8_Witness ==
    /\ Returned("open_blocker_count")
    /\ call.node < len(graph)
    /\ ret.usize = 2
    /\ Len(call.closed_set) = 2
    /\ \E p \in PredSet(graph, call.node) : p >= Len(call.closed_set)
    /\ \E bigger \in ClosedSets :
          /\ Len(bigger) < Len(call.closed_set)
          /\ \A i \in 0..(MaxClosedLen - 1) :
                ClosedAt(call.closed_set, i) => ClosedAt(bigger, i)
          /\ open_blocker_count(graph, call.node, bigger) < ret.usize

\* C9: the traversal loops of reachable_from and reachable_to terminate on
\* every graph: each node is enqueued at most once, the result never repeats
\* a node and is never longer than the node count, and a running traversal
\* eventually returns.
C9_TraversalSafe ==
    (call.fn \in ReachFns /\ pc \in {"bfs_loop", "done"}) =>
        /\ \A k \in 1..Len(enqueued) : enqueued[k] <= 1
        /\ \A k \in 1..Len(enqueued) : enqueued[k] = 1 <=> visited[k]
        /\ NoRepeat(result)
        /\ NoRepeat(queue)
        /\ Len(result) + Len(queue) <= len(graph)
        /\ pc = "done" => (NoRepeat(ret.vec) /\ Len(ret.vec) <= len(graph))

C9_TraversalTerminates ==
    /\ []C9_TraversalSafe
    /\ (pc = "bfs_loop") ~> (pc = "done" /\ call.fn \in ReachFns)

\* A traversal returned after walking a graph with a self-loop and a
\* duplicate edge, having met an already visited node three times.
C9_Witness ==
    /\ pc = "done"
    /\ call.fn \in ReachFns
    /\ edge_count = 3
    /\ \E u \in Nodes(graph) : HasEdge(graph, u, u)
    /\ HasDuplicateEdge(graph)
    /\ Len(ret.vec) = 1

\* C10: on an acyclic graph with a node that is not closed, actionable_nodes
\* is non-empty; a caller that keeps closing a returned node and recomputing
\* eventually has every node closed and an empty frontier.
AllClosed == \A i \in Nodes(graph) : ClosedAt(call.closed_set, i)

C10_FrontierNonEmpty ==
    (pc = "frontier" /\ ~HasCycle(graph) /\ ~AllClosed) => ret.vec # <<>>

C10_NoDeadlockOnDag ==
    /\ []C10_FrontierNonEmpty
    /\ (pc = "frontier" /\ ~HasCycle(graph))
          ~> (pc = "frontier" /\ AllClosed /\ ret.vec = <<>>)

\* The caller closed all three nodes of a DAG with edges, one by one, starting
\* from an empty closed set.
C10_Witness ==
    /\ pc = "frontier"
    /\ ~HasCycle(graph)
    /\ len(graph) = 3
    /\ edge_count >= 2
    /\ closes = 3
    /\ AllClosed
    /\ ret.vec = <<>>

\* C11: in topological_sort, on every graph (cycles, self-loops and duplicate
\* edges included), in_degree[v] -= 1 is never executed while in_degree[v] is
\* 0: the decrements applied to v never exceed the occurrences of v's
\* predecessors, and every node is pushed onto the ready heap at most once.
C11_NoInDegreeUnderflow ==
    (call.fn \in TopoFns /\ pc \in {"topo_loop", "done"}) =>
        /\ ~underflow
        /\ \A k \in 1..Len(in_degree) :
              /\ in_degree[k] >= 0
              /\ InitInDegree(graph)[k] - in_degree[k]
                    <= Len(predecessors_slice(graph, k - 1))
        /\ \A k \in 1..Len(heap_pushes) : heap_pushes[k] <= 1
        /\ \A v \in BagToSet(heap) : CopiesIn(v, heap) = 1

\* The sort ended on a graph with a self-loop and a duplicate edge: a node
\* was decremented twice, never reached zero and was never pushed.
C11_Witness ==
    /\ pc = "done"
    /\ call.fn \in TopoFns
    /\ order # <<>>
    /\ HasDuplicateEdge(graph)
    /\ \E u \in Nodes(graph) : HasEdge(graph, u, u)
    /\ \E k \in 1..Len(in_degree) :
          /\ in_degree[k] > 0
          /\ InitInDegree(graph)[k] - in_degree[k] = 2
          /\ heap_pushes[k] = 0

====
